---- MODULE Spec2Model ----
(***************************************************************************)
(* Model of x-pack/functionbeat/manager/gcp/template_builder.go: the GCP   *)
(* template builder of Functionbeat.  The builder resolves a function in   *)
(* the provider registry, zips its resource files and renders the request  *)
(* body of the Cloud Functions API.                                        *)
(*                                                                         *)
(* Durations are counted in whole seconds.  Go maps (common.MapStr) are    *)
(* functions with a set of string keys; a nil pointer, slice or error is   *)
(* a distinguished value of the same shape as the non-nil ones.            *)
(***************************************************************************)
EXTENDS Integers, Sequences, FiniteSets, TLC

VARIABLES
    registry,    \* provider registry: deployment name -> registered object
    unreadable,  \* paths of the build root that cannot be read
    d,           \* the defaultTemplateBuilder (receiver of the methods)
    ret,         \* what the last call returned, with the collaborator calls it made
    built,       \* per name: the functionData of the last successful execute
    rendered     \* per name: the text of the last successful RawTemplate

vars == <<registry, unreadable, d, ret, built, rendered>>

(***************************** bounds **************************************)
\* longest listing provider.ListFunctions returns
MaxTypes == 2
\* how many files of the build root may be unreadable at once
MaxUnreadable == 1

(***************************** constants ***********************************)
runtime == "go111"
\* FileMode 0755 and 0655 (octal)
SourceFileMode == 493
ManifestFileMode == 429

(***************************** input domains *******************************)
Names == {"es-storage", "pubsub"}
\* the types the registry may list, and those of the registered functions
TypeNames == {"storage", "pubsub", "http"}
InstalledTypes == {"storage", "pubsub"}

NoErr == "nil"
IncompatibleType == "incompatible type received, expecting: 'functionManager'"
IOError == "IOError"
UnpackError == "UnpackError"
ListError == "ListFunctionsError"
NotFoundError(name) == "NotFoundError: " \o name

NoLabels == <<>>
Trigger == [eventType |-> "google.storage.object.finalize", resource |-> "bucket-in"]

ZeroConfig ==
    [Description |-> "", entryPoint |-> "", Trigger |-> [eventType |-> "", resource |-> ""],
     Timeout |-> 0, MemorySize |-> 0, ServiceAccountEmail |-> "",
     Labels |-> NoLabels, MaxInstances |-> 0, VPCConnector |-> ""]

\* every combination of the six optional fields, negative numbers included
AllConfigs ==
    [Description : {"sync events"}, entryPoint : {"Handle"}, Trigger : {Trigger},
     Timeout : {-1, 0, 30, 90}, MemorySize : {-1, 0, 256},
     ServiceAccountEmail : {"", "sa@example.com"},
     Labels : {NoLabels, ("team" :> "obs")},
     MaxInstances : {-1, 0, 2}, VPCConnector : {"", "conn"}]

\* the configuration each registered function type carries in the builder runs
StorageConfig ==
    [Description |-> "sync events", entryPoint |-> "Handle", Trigger |-> Trigger,
     Timeout |-> 30, MemorySize |-> 256, ServiceAccountEmail |-> "",
     Labels |-> NoLabels, MaxInstances |-> 0, VPCConnector |-> ""]
PubSubConfig ==
    [Description |-> "queue events", entryPoint |-> "Handle", Trigger |-> Trigger,
     Timeout |-> -1, MemorySize |-> 0, ServiceAccountEmail |-> "sa@example.com",
     Labels |-> ("team" :> "obs"), MaxInstances |-> 2, VPCConnector |-> "conn"]

GcpConfigs ==
    { [ProjectID |-> "proj", Location |-> "us-central1", FunctionStorage |-> "fb-bucket"],
      [ProjectID |-> "other", Location |-> "europe-west1", FunctionStorage |-> "fb-eu"] }
ZeroGcpConfig == [ProjectID |-> "", Location |-> "", FunctionStorage |-> ""]

\* objects the registry can hold under a name
NilFn == [kind |-> "nil", typeName |-> "", config |-> ZeroConfig]
Objects ==
    { [kind |-> "unregistered", typeName |-> "", config |-> ZeroConfig],
      [kind |-> "other", typeName |-> "", config |-> ZeroConfig] }
    \cup { [kind |-> "installer", typeName |-> "storage", config |-> StorageConfig],
           [kind |-> "installer", typeName |-> "pubsub", config |-> PubSubConfig] }

RECURSIVE SeqsUpTo(_, _)
SeqsUpTo(S, n) ==
    IF n = 0 THEN {<<>>}
    ELSE LET shorter == SeqsUpTo(S, n - 1)
         IN shorter \cup { Append(s, x) : s \in shorter, x \in S }

IsInjective(s) == \A i, j \in 1..Len(s) : s[i] = s[j] => i = j
\* the registry lists each type once
Listings == { s \in SeqsUpTo(TypeNames, MaxTypes) : IsInjective(s) }

(***************************** helpers *************************************)
\* body[k] = v on a Go map
Put(m, k, v) == [x \in DOMAIN m \cup {k} |-> IF x = k THEN v ELSE m[x]]

\* time.Duration.String() for a whole number of seconds
DurationString(t) ==
    LET a == IF t < 0 THEN -t ELSE t
        h == a \div 3600
        m == (a % 3600) \div 60
        s == a % 60
        sign == IF t < 0 THEN "-" ELSE ""
    IN IF h > 0 THEN sign \o ToString(h) \o "h" \o ToString(m) \o "m" \o ToString(s) \o "s"
       ELSE IF m > 0 THEN sign \o ToString(m) \o "m" \o ToString(s) \o "s"
       ELSE sign \o ToString(s) \o "s"

\* fmt.Sprintf(functionName, project, location, name)
functionName(project, location, name) ==
    "projects/" \o project \o "/locations/" \o location \o "/functions/" \o name

\* fmt.Sprintf(sourceArchiveURL, bucket, name)
sourceArchiveURL(bucket, name) == "gs://" \o bucket \o "/" \o name

\* &bundle.LocalFile{Path: ..., FileMode: ...}
LocalFile(path, mode) == [Path |-> path, FileMode |-> mode]

zipResources(typeName) ==
    << LocalFile("pkg/" \o typeName \o "/" \o typeName \o ".go", SourceFileMode),
       LocalFile("pkg/" \o typeName \o "/go.mod", ManifestFileMode),
       LocalFile("pkg/" \o typeName \o "/go.sum", ManifestFileMode) >>

\* the files Build can ask for
AllPaths == { zipResources(t)[i].Path : t \in InstalledTypes, i \in 1..3 }

(***************************** requestBody *********************************)
\* the mandatory fields with ENABLED_FUNCTIONS set to the full resource name
mandatoryFields_fullname(name, config) ==
    LET fnName == functionName(d.gcpConfig.ProjectID, d.gcpConfig.Location, name)
    IN [name |-> fnName,
        description |-> config.Description,
        entryPoint |-> config.entryPoint,
        runtime |-> runtime,
        sourceArchiveUrl |-> sourceArchiveURL(d.gcpConfig.FunctionStorage, name),
        eventTrigger |-> config.Trigger,
        environmentVariables |-> [ENABLED_FUNCTIONS |-> fnName]]

\* the map literal requestBody starts from
mandatoryFields(name, config) ==
    LET fnName == functionName(d.gcpConfig.ProjectID, d.gcpConfig.Location, name)
    IN [name |-> fnName,
        description |-> config.Description,
        entryPoint |-> config.entryPoint,
        runtime |-> runtime,
        sourceArchiveUrl |-> sourceArchiveURL(d.gcpConfig.FunctionStorage, name),
        eventTrigger |-> config.Trigger,
        environmentVariables |-> [ENABLED_FUNCTIONS |-> name]]

\* the optional fields with the numeric checks written as "!= 0"
optionalFields_nonzero(body, config) ==
    LET b1 == IF config.Timeout # 0
              THEN Put(body, "timeout", DurationString(config.Timeout)) ELSE body
        b2 == IF config.MemorySize # 0 THEN Put(b1, "memorySize", config.MemorySize) ELSE b1
        b3 == IF Len(config.ServiceAccountEmail) > 0
              THEN Put(b2, "serviceAccountEmail", config.ServiceAccountEmail) ELSE b2
        b4 == IF Cardinality(DOMAIN config.Labels) > 0
              THEN Put(b3, "labels", config.Labels) ELSE b3
        b5 == IF config.MaxInstances # 0
              THEN Put(b4, "maxInstances", config.MaxInstances) ELSE b4
        b6 == IF Len(config.VPCConnector) > 0
              THEN Put(b5, "vpcConnector", config.VPCConnector) ELSE b5
    IN b6

\* the optional fields with labels assigned without the length check
optionalFields_labels(body, config) ==
    LET b1 == IF config.Timeout > 0
              THEN Put(body, "timeout", DurationString(config.Timeout)) ELSE body
        b2 == IF config.MemorySize > 0 THEN Put(b1, "memorySize", config.MemorySize) ELSE b1
        b3 == IF Len(config.ServiceAccountEmail) > 0
              THEN Put(b2, "serviceAccountEmail", config.ServiceAccountEmail) ELSE b2
        b4 == Put(b3, "labels", config.Labels)
        b5 == IF config.MaxInstances > 0
              THEN Put(b4, "maxInstances", config.MaxInstances) ELSE b4
        b6 == IF Len(config.VPCConnector) > 0
              THEN Put(b5, "vpcConnector", config.VPCConnector) ELSE b5
    IN b6

\* the six if statements of requestBody, in order
optionalFields(body, config) ==
    LET b1 == IF config.Timeout > 0
              THEN Put(body, "timeout", DurationString(config.Timeout)) ELSE body
        b2 == IF config.MemorySize > 0 THEN Put(b1, "memorySize", config.MemorySize) ELSE b1
        b3 == IF Len(config.ServiceAccountEmail) > 0
              THEN Put(b2, "serviceAccountEmail", config.ServiceAccountEmail) ELSE b2
        b4 == IF Cardinality(DOMAIN config.Labels) > 0
              THEN Put(b3, "labels", config.Labels) ELSE b3
        b5 == IF config.MaxInstances > 0
              THEN Put(b4, "maxInstances", config.MaxInstances) ELSE b4
        b6 == IF Len(config.VPCConnector) > 0
              THEN Put(b5, "vpcConnector", config.VPCConnector) ELSE b5
    IN b6

requestBody(name, config) == optionalFields(mandatoryFields(name, config), config)

(***************************** collaborators *******************************)
\* one entry of the record of calls made to collaborators
Call(fn, arg, ok) == [fn |-> fn, arg |-> arg, ok |-> ok]

\* provider.FindFunctionByName: the object registered under the name, or an error
FindFunctionByName(name) ==
    IF registry[name].kind = "unregistered"
    THEN [fn |-> NilFn, err |-> NotFoundError(name)]
    ELSE [fn |-> registry[name], err |-> NoErr]

\* fn.(installer): the type assertion of findFunction
IsInstaller(fn) == fn.kind = "installer"

\* installer.Name(): the function's own name, which is its type name
FnName(fn) == fn.typeName

\* installer.Config()
FnConfig(fn) == fn.config

\* core.MakeZip: all files in input order, or an error and no bytes
MakeZip(resources) ==
    IF \E i \in 1..Len(resources) : resources[i].Path \in unreadable
    THEN [raw |-> <<>>, err |-> IOError]
    ELSE [raw |-> [i \in 1..Len(resources) |->
                     [name |-> resources[i].Path, mode |-> resources[i].FileMode]],
          err |-> NoErr]

\* alphabetical order of the keys, as encoding/json writes a map
JsonKeyOrder ==
    << "description", "entryPoint", "environmentVariables", "eventTrigger", "labels",
       "maxInstances", "memorySize", "name", "runtime", "serviceAccountEmail",
       "sourceArchiveUrl", "timeout", "vpcConnector" >>

\* common.MapStr.StringToPrint(): the members of the map in key order
StringToPrint(body) ==
    LET keys == SelectSeq(JsonKeyOrder, LAMBDA k : k \in DOMAIN body)
    IN [i \in 1..Len(keys) |-> <<keys[i], body[keys[i]]>>]

(***************************** findFunction ********************************)
\* findFunction without the type assertion
findFunction_unchecked(name) ==
    LET r == FindFunctionByName(name)
    IN IF r.err # NoErr THEN [function |-> NilFn, err |-> r.err]
       ELSE [function |-> r.fn, err |-> NoErr]

findFunction(name) ==
    LET r == FindFunctionByName(name)
    IN IF r.err # NoErr THEN [function |-> NilFn, err |-> r.err]
       ELSE IF ~IsInstaller(r.fn) THEN [function |-> NilFn, err |-> IncompatibleType]
       ELSE [function |-> r.fn, err |-> NoErr]

(***************************** execute *************************************)
NilData == [present |-> FALSE, raw |-> <<>>, requestBody |-> <<>>]
FunctionData(raw, body) == [present |-> TRUE, raw |-> raw, requestBody |-> body]

\* execute that returns what it has when MakeZip fails
execute_partial(name) ==
    LET f == findFunction(name)
        lookup == Call("FindFunctionByName", name, FindFunctionByName(name).err = NoErr)
    IN IF f.err # NoErr
       THEN [data |-> NilData, err |-> f.err, calls |-> <<lookup>>]
       ELSE LET resources == zipResources(FnName(f.function))
                z == MakeZip(resources)
                zip == Call("MakeZip", resources, z.err = NoErr)
            IN [data |-> FunctionData(z.raw, requestBody(name, FnConfig(f.function))),
                err |-> z.err, calls |-> <<lookup, zip>>]

\* execute that zips the files of the name it was called with
execute_byname(name) ==
    LET f == findFunction(name)
        lookup == Call("FindFunctionByName", name, FindFunctionByName(name).err = NoErr)
    IN IF f.err # NoErr
       THEN [data |-> NilData, err |-> f.err, calls |-> <<lookup>>]
       ELSE LET resources == zipResources(name)
                z == MakeZip(resources)
                zip == Call("MakeZip", resources, z.err = NoErr)
            IN IF z.err # NoErr
               THEN [data |-> NilData, err |-> z.err, calls |-> <<lookup, zip>>]
               ELSE [data |-> FunctionData(z.raw, requestBody(name, FnConfig(f.function))),
                     err |-> NoErr, calls |-> <<lookup, zip>>]

execute(name) ==
    LET f == findFunction(name)
        lookup == Call("FindFunctionByName", name, FindFunctionByName(name).err = NoErr)
    IN IF f.err # NoErr
       THEN [data |-> NilData, err |-> f.err, calls |-> <<lookup>>]
       ELSE LET resources == zipResources(FnName(f.function))
                z == MakeZip(resources)
                zip == Call("MakeZip", resources, z.err = NoErr)
            IN IF z.err # NoErr
               THEN [data |-> NilData, err |-> z.err, calls |-> <<lookup, zip>>]
               ELSE [data |-> FunctionData(z.raw, requestBody(name, FnConfig(f.function))),
                     err |-> NoErr, calls |-> <<lookup, zip>>]

(***************************** RawTemplate *********************************)
\* RawTemplate written on top of execute
RawTemplate_viaExecute(name) ==
    LET e == execute(name)
    IN IF e.err # NoErr THEN [text |-> <<>>, err |-> e.err, calls |-> e.calls]
       ELSE [text |-> StringToPrint(e.data.requestBody), err |-> NoErr, calls |-> e.calls]

\* RawTemplate that renders under the function's own name
RawTemplate_ownName(name) ==
    LET f == findFunction(name)
        lookup == Call("FindFunctionByName", name, FindFunctionByName(name).err = NoErr)
    IN IF f.err # NoErr
       THEN [text |-> <<>>, err |-> f.err, calls |-> <<lookup>>]
       ELSE [text |-> StringToPrint(requestBody(FnName(f.function), FnConfig(f.function))),
             err |-> NoErr, calls |-> <<lookup>>]

RawTemplate(name) ==
    LET f == findFunction(name)
        lookup == Call("FindFunctionByName", name, FindFunctionByName(name).err = NoErr)
    IN IF f.err # NoErr
       THEN [text |-> <<>>, err |-> f.err, calls |-> <<lookup>>]
       ELSE [text |-> StringToPrint(requestBody(name, FnConfig(f.function))),
             err |-> NoErr, calls |-> <<lookup>>]

(***************************** ZipResources ********************************)
RECURSIVE appendAll(_, _)
\* the loop of ZipResources: resources = append(resources, zipResources(f)...)
appendAll(resources, functions) ==
    IF functions = <<>> THEN resources
    ELSE appendAll(resources \o zipResources(Head(functions)), Tail(functions))

\* a []bundle.Resource: Go tells a nil slice from an empty one
NilSlice == [isNil |-> TRUE, items |-> <<>>]
Slice(items) == [isNil |-> FALSE, items |-> items]

\* provider.ListFunctions("gcp"): the listing, or an error and no listing
ListFunctions(listing, fails) ==
    IF fails THEN [functions |-> <<>>, err |-> ListError]
    ELSE [functions |-> listing, err |-> NoErr]

\* ZipResources that looks only at the first listed type
ZipResources_first(listed) ==
    IF listed.err # NoErr
    THEN [resources |-> NilSlice, calls |-> <<Call("ListFunctions", "gcp", FALSE)>>]
    ELSE [resources |-> Slice(IF listed.functions = <<>> THEN <<>>
                              ELSE zipResources(Head(listed.functions))),
          calls |-> <<Call("ListFunctions", "gcp", TRUE)>>]

\* ZipResources, given what provider.ListFunctions("gcp") returned
ZipResources(listed) ==
    IF listed.err # NoErr
    THEN [resources |-> NilSlice, calls |-> <<Call("ListFunctions", "gcp", FALSE)>>]
    ELSE [resources |-> Slice(appendAll(<<>>, listed.functions)),
          calls |-> <<Call("ListFunctions", "gcp", TRUE)>>]

(***************************** the state machine ***************************)
NoBody == <<>>
\* what a call returned; the fields a call does not return hold their nil value
Ret(op, name, err, calls) ==
    [op |-> op, name |-> name, err |-> err, calls |-> calls,
     data |-> NilData, text |-> <<>>, fn |-> NilFn, resources |-> NilSlice,
     listing |-> <<>>, config |-> ZeroConfig, body |-> NoBody]

None == [some |-> FALSE, value |-> <<>>]
Some(v) == [some |-> TRUE, value |-> v]

Init ==
    /\ registry \in [Names -> Objects]
    /\ unreadable = {}
    /\ d = [state |-> "unconstructed", gcpConfig |-> ZeroGcpConfig]
    /\ ret = Ret("none", "", NoErr, <<>>)
    /\ built = [n \in Names |-> None]
    /\ rendered = [n \in Names |-> None]

\* NewTemplateBuilder: cfg.Unpack fills gcpCfg or fails
NewTemplateBuilder(gcpCfg, unpackFails) ==
    /\ d.state = "unconstructed"
    /\ IF unpackFails
       THEN /\ d' = [state |-> "zero", gcpConfig |-> ZeroGcpConfig]
            /\ ret' = Ret("NewTemplateBuilder", "", UnpackError,
                          <<Call("Unpack", "cfg", FALSE)>>)
       ELSE /\ d' = [state |-> "ready", gcpConfig |-> gcpCfg]
            /\ ret' = Ret("NewTemplateBuilder", "", NoErr, <<Call("Unpack", "cfg", TRUE)>>)
    /\ UNCHANGED <<registry, unreadable, built, rendered>>

\* a call of execute on a constructed builder
Build(name) ==
    /\ d.state = "ready"
    /\ LET e == execute(name)
       IN /\ ret' = [Ret("execute", name, e.err, e.calls) EXCEPT !.data = e.data]
          /\ built' = IF e.data.present
                      THEN [built EXCEPT ![name] = Some(e.data.requestBody)]
                      ELSE built
    /\ UNCHANGED <<registry, unreadable, d, rendered>>

\* a call of RawTemplate on a constructed builder
RenderOnly(name) ==
    /\ d.state = "ready"
    /\ LET r == RawTemplate(name)
       IN /\ ret' = [Ret("RawTemplate", name, r.err, r.calls) EXCEPT !.text = r.text]
          /\ rendered' = IF r.err = NoErr
                         THEN [rendered EXCEPT ![name] = Some(r.text)]
                         ELSE rendered
    /\ UNCHANGED <<registry, unreadable, d, built>>

\* a call of findFunction
Resolve(name) ==
    /\ LET f == findFunction(name)
       IN ret' = [Ret("findFunction", name, f.err,
                      <<Call("FindFunctionByName", name, FindFunctionByName(name).err = NoErr)>>)
                  EXCEPT !.fn = f.function]
    /\ UNCHANGED <<registry, unreadable, d, built, rendered>>

\* a call of the package function ZipResources; it has no error result
ListArchiveResources(listing, fails) ==
    /\ LET z == ZipResources(ListFunctions(listing, fails))
       IN ret' = [Ret("ZipResources", "", NoErr, z.calls)
                  EXCEPT !.resources = z.resources,
                         !.listing = ListFunctions(listing, fails).functions]
    /\ UNCHANGED <<registry, unreadable, d, built, rendered>>

\* the environment makes a file of the build root unreadable
FileLost(path) ==
    /\ path \notin unreadable
    /\ Cardinality(unreadable) < MaxUnreadable
    /\ unreadable' = unreadable \cup {path}
    /\ UNCHANGED <<registry, d, ret, built, rendered>>

\* the environment makes a file readable again
FileRestored(path) ==
    /\ path \in unreadable
    /\ unreadable' = unreadable \ {path}
    /\ UNCHANGED <<registry, d, ret, built, rendered>>

\* the configurations of the registered function types
RegisteredConfigs == {StorageConfig, PubSubConfig}

\* a call of requestBody on a constructed builder
Render(name, config) ==
    /\ d.state = "ready"
    /\ ret' = [Ret("requestBody", name, NoErr, <<>>)
               EXCEPT !.config = config, !.body = requestBody(name, config)]
    /\ UNCHANGED <<registry, unreadable, d, built, rendered>>

Next ==
    \/ \E g \in GcpConfigs, f \in BOOLEAN : NewTemplateBuilder(g, f)
    \/ \E n \in Names : Build(n)
    \/ \E n \in Names : RenderOnly(n)
    \/ \E n \in Names : Resolve(n)
    \/ \E l \in Listings : ListArchiveResources(l, FALSE)
    \/ ListArchiveResources(<<>>, TRUE)
    \/ \E p \in AllPaths : FileLost(p)
    \/ \E p \in AllPaths : FileRestored(p)
    \/ \E n \in Names, c \in RegisteredConfigs : Render(n, c)

Spec == Init /\ [][Next]_vars

(******************* requestBody on every configuration ********************)
InitRender ==
    /\ registry = [n \in Names |-> [kind |-> "unregistered", typeName |-> "",
                                    config |-> ZeroConfig]]
    /\ unreadable = {}
    /\ d = [state |-> "unconstructed", gcpConfig |-> ZeroGcpConfig]
    /\ ret = Ret("none", "", NoErr, <<>>)
    /\ built = [n \in Names |-> None]
    /\ rendered = [n \in Names |-> None]

NextRender ==
    \/ \E g \in GcpConfigs, f \in BOOLEAN : NewTemplateBuilder(g, f)
    \/ \E n \in Names, c \in AllConfigs : Render(n, c)

SpecRender == InitRender /\ [][NextRender]_vars

(***************************** claims **************************************)
OptionalKeys ==
    {"timeout", "memorySize", "serviceAccountEmail", "labels", "maxInstances", "vpcConnector"}
MandatoryKeys ==
    {"name", "description", "entryPoint", "runtime", "sourceArchiveUrl", "eventTrigger",
     "environmentVariables"}

\* the value of an optional field is not its zero value
NonDefault(config, k) ==
    CASE k = "timeout" -> config.Timeout # 0
      [] k = "memorySize" -> config.MemorySize # 0
      [] k = "serviceAccountEmail" -> config.ServiceAccountEmail # ""
      [] k = "labels" -> DOMAIN config.Labels # {}
      [] k = "maxInstances" -> config.MaxInstances # 0
      [] k = "vpcConnector" -> config.VPCConnector # ""

\* the value of an optional field is positive, or non-empty
PositiveOrNonEmpty(config, k) ==
    CASE k = "timeout" -> config.Timeout >= 1
      [] k = "memorySize" -> config.MemorySize >= 1
      [] k = "serviceAccountEmail" -> config.ServiceAccountEmail # ""
      [] k = "labels" -> DOMAIN config.Labels # {}
      [] k = "maxInstances" -> config.MaxInstances >= 1
      [] k = "vpcConnector" -> config.VPCConnector # ""

\* C1 as stated: each optional field is in the body returned by requestBody
\* if and only if its source value is non-zero or non-empty, negative
\* durations and integers included.
C1_PresentIffNonDefault ==
    ret.op = "requestBody" =>
        \A k \in OptionalKeys : (k \in DOMAIN ret.body) <=> NonDefault(ret.config, k)

\* C1 as amended: each optional field is in the body returned by requestBody
\* if and only if its own source value is strictly positive (timeout,
\* memorySize, maxInstances) or non-empty (serviceAccountEmail, labels,
\* vpcConnector), whatever the other fields hold.
C1_PresentIffPositive ==
    ret.op = "requestBody" =>
        \A k \in OptionalKeys : (k \in DOMAIN ret.body) <=> PositiveOrNonEmpty(ret.config, k)

\* a negative timeout is left out while other optional fields are rendered
C1_Witness ==
    /\ ret.op = "requestBody"
    /\ ret.config.Timeout < 0
    /\ "timeout" \notin DOMAIN ret.body
    /\ ret.config.MemorySize > 0
    /\ "memorySize" \in DOMAIN ret.body
    /\ ret.config.MaxInstances = 0
    /\ "maxInstances" \notin DOMAIN ret.body

\* C2 as stated: the body always has the seven mandatory keys; with all six
\* optional values at their zero value the key set is exactly those seven;
\* with all six non-zero/non-empty the key set has thirteen keys.
C2_KeySetNonDefault ==
    ret.op = "requestBody" =>
        /\ MandatoryKeys \subseteq DOMAIN ret.body
        /\ (\A k \in OptionalKeys : ~NonDefault(ret.config, k))
               => DOMAIN ret.body = MandatoryKeys
        /\ (\A k \in OptionalKeys : NonDefault(ret.config, k))
               => Cardinality(DOMAIN ret.body) = 13

\* C2 as amended: the body always has the seven mandatory keys; with all six
\* optional values at their zero value the key set is exactly those seven;
\* with all six positive or non-empty the key set is the thirteen keys.
C2_KeySetPositive ==
    ret.op = "requestBody" =>
        /\ MandatoryKeys \subseteq DOMAIN ret.body
        /\ (\A k \in OptionalKeys : ~NonDefault(ret.config, k))
               => DOMAIN ret.body = MandatoryKeys
        /\ (\A k \in OptionalKeys : PositiveOrNonEmpty(ret.config, k))
               => /\ DOMAIN ret.body = MandatoryKeys \cup OptionalKeys
                  /\ Cardinality(DOMAIN ret.body) = 13

\* a body with all thirteen keys has been rendered
C2_Witness ==
    /\ ret.op = "requestBody"
    /\ \A k \in OptionalKeys : PositiveOrNonEmpty(ret.config, k)
    /\ Cardinality(DOMAIN ret.body) = 13

\* C3: in every body returned by requestBody, execute or RawTemplate the
\* environmentVariables mapping has the single key ENABLED_FUNCTIONS, whose
\* value is the name the caller passed.
C3_EnabledFunctions ==
    LET RightEnv(env, name) ==
            /\ DOMAIN env = {"ENABLED_FUNCTIONS"}
            /\ env.ENABLED_FUNCTIONS = name
    IN /\ ret.op = "requestBody" => RightEnv(ret.body.environmentVariables, ret.name)
       /\ (ret.op = "execute" /\ ret.data.present)
              => RightEnv(ret.data.requestBody.environmentVariables, ret.name)
       /\ (ret.op = "RawTemplate" /\ ret.err = NoErr)
              => \E i \in 1..Len(ret.text) :
                     /\ ret.text[i][1] = "environmentVariables"
                     /\ RightEnv(ret.text[i][2], ret.name)

\* a build of a function whose own name differs from the name passed
C3_Witness ==
    /\ ret.op = "execute"
    /\ ret.data.present
    /\ registry[ret.name].typeName # ret.name
    /\ ret.data.requestBody.environmentVariables.ENABLED_FUNCTIONS = "es-storage"

\* C4: execute returns either an error and a nil functionData, or archive
\* bytes and a request body together; data is returned only when resolution
\* and MakeZip both succeeded, the error is the failing step's error, and
\* no step is tried twice.
C4_AllOrNothing ==
    ret.op = "execute" =>
        LET resolved == registry[ret.name].kind = "installer"
            zipped == Len(ret.calls) = 2 /\ ret.calls[2].ok
        IN /\ ret.err # NoErr => ret.data = NilData
           /\ ret.data.present <=> (resolved /\ zipped)
           /\ ret.data.present
                  => /\ ret.err = NoErr
                     /\ Len(ret.data.raw) = 3
                     /\ MandatoryKeys \subseteq DOMAIN ret.data.requestBody
           /\ ~resolved => ret.err = findFunction(ret.name).err /\ Len(ret.calls) = 1
           /\ (resolved /\ ~zipped) => ret.err = IOError
           /\ Len(ret.calls) <= 2
           /\ ret.calls[1].fn = "FindFunctionByName"
           /\ Len(ret.calls) = 2 => ret.calls[2].fn = "MakeZip"

\* a build whose archive assembly failed after a successful resolution
C4_Witness ==
    /\ ret.op = "execute"
    /\ ret.err = IOError
    /\ registry[ret.name].kind = "installer"
    /\ ~ret.data.present

\* C5: RawTemplate fails exactly when resolution of the name fails, with the
\* error execute gives for it; it never calls MakeZip, so it succeeds for a
\* resolvable name whose files are unreadable.
C5_RenderOnlyResolution ==
    ret.op = "RawTemplate" =>
        /\ (ret.err # NoErr) <=> (registry[ret.name].kind # "installer")
        /\ ret.err # NoErr => ret.err = execute(ret.name).err
        /\ \A i \in 1..Len(ret.calls) : ret.calls[i].fn # "MakeZip"
        /\ ret.err = NoErr => Len(ret.text) >= Cardinality(MandatoryKeys)

\* RawTemplate succeeded for a name for which execute fails on an unreadable file
C5_Witness ==
    /\ ret.op = "RawTemplate"
    /\ ret.err = NoErr
    /\ execute(ret.name).err = IOError

\* C6: findFunction returns a function if and only if the name is registered
\* and the object is an installer; an unregistered name gives the registry's
\* not-found error, a non-installer the incompatible-type error, each with
\* no function; a function and an error are never returned together.
C6_Resolve ==
    ret.op = "findFunction" =>
        LET obj == registry[ret.name]
        IN /\ (ret.fn # NilFn) <=> (obj.kind = "installer")
           /\ obj.kind = "unregistered"
                  => ret.err = NotFoundError(ret.name) /\ ret.fn = NilFn
           /\ obj.kind = "other" => ret.err = IncompatibleType /\ ret.fn = NilFn
           /\ obj.kind = "installer" => ret.err = NoErr /\ ret.fn = obj
           /\ ~(ret.fn # NilFn /\ ret.err # NoErr)

\* a registered object that is no installer was refused
C6_Witness ==
    /\ ret.op = "findFunction"
    /\ registry[ret.name].kind = "other"
    /\ ret.err = IncompatibleType

\* C7: when the registry lists n types, ZipResources returns 3n files: for
\* the i-th listed type t, in listing order, pkg/t/t.go with mode 0755, then
\* pkg/t/go.mod and pkg/t/go.sum with mode 0655.
C7_ThreePerType ==
    (ret.op = "ZipResources" /\ ret.calls[1].ok) =>
        LET types == ret.listing
            files == ret.resources.items
        IN /\ ~ret.resources.isNil
           /\ Len(files) = 3 * Len(types)
           /\ \A i \in 1..Len(types) :
                  LET dir == "pkg/" \o types[i] \o "/"
                  IN /\ files[3 * i - 2] = [Path |-> dir \o types[i] \o ".go", FileMode |-> 493]
                     /\ files[3 * i - 1] = [Path |-> dir \o "go.mod", FileMode |-> 429]
                     /\ files[3 * i] = [Path |-> dir \o "go.sum", FileMode |-> 429]

\* two types were listed, pubsub before storage, and six files returned
C7_Witness ==
    /\ ret.op = "ZipResources"
    /\ ret.listing = <<"pubsub", "storage">>
    /\ Len(ret.resources.items) = 6

\* C8: a call in which a collaborator failed returns an error to its caller.
C8_FailuresReported ==
    (\E i \in 1..Len(ret.calls) : ~ret.calls[i].ok) => ret.err # NoErr

\* C9: the files execute hands to MakeZip are the three files of the
\* function's type, in order, the same ZipResources lists for that type,
\* and the archive holds them; the name passed to execute plays no part.
C9_FilesOfType ==
    (ret.op = "execute" /\ Len(ret.calls) = 2) =>
        LET t == registry[ret.name].typeName
            dir == "pkg/" \o t \o "/"
            files == ret.calls[2].arg
        IN /\ files = << [Path |-> dir \o t \o ".go", FileMode |-> 493],
                         [Path |-> dir \o "go.mod", FileMode |-> 429],
                         [Path |-> dir \o "go.sum", FileMode |-> 429] >>
           /\ files = ZipResources(ListFunctions(<<t>>, FALSE)).resources.items
           /\ ret.data.present
                  => /\ Len(ret.data.raw) = 3
                     /\ \A i \in 1..3 :
                            /\ ret.data.raw[i].name = files[i].Path
                            /\ ret.data.raw[i].mode = files[i].FileMode

\* a build under a name that is the name of another type than the function's
C9_Witness ==
    /\ ret.op = "execute"
    /\ ret.data.present
    /\ ret.name = "pubsub"
    /\ registry[ret.name].typeName = "storage"
    /\ ret.data.raw[1].name = "pkg/storage/storage.go"

\* the body of every successful execute prints as every successful RawTemplate
\* of the same name did
BuildAgreesWithRender ==
    \A n \in Names :
        (built[n].some /\ rendered[n].some) => StringToPrint(built[n].value) = rendered[n].value

\* C10: no call on a constructed builder changes the builder; a later
\* successful execute or RawTemplate of a name returns what an earlier one
\* returned, whatever was called in between; and the body execute returns
\* is the body RawTemplate prints.
C10_StatelessAgree ==
    /\ []BuildAgreesWithRender
    /\ [][ /\ d.state = "ready" => d' = d
           /\ \A n \in Names : built[n].some => built'[n] = built[n]
           /\ \A n \in Names : rendered[n].some => rendered'[n] = rendered[n] ]_vars

\* a name built and rendered, under a name that is not the function's own,
\* with a failed call the last one made
C10_Witness ==
    /\ built["es-storage"].some
    /\ rendered["es-storage"].some
    /\ built["pubsub"].some
    /\ ret.op = "execute"
    /\ ret.err # NoErr

====
